---- MODULE Spec2Model ----
(***************************************************************************)
(* A model of src/src/engine.rs: the scalar autograd value node            *)
(* (Value<T> = Rc<RefCell<ValueImpl<T>>>), graph construction by + and *,  *)
(* and the per-node local backward rules.                                  *)
(*                                                                         *)
(* A node handle is the address of the node's storage; the heap is the     *)
(* sequence of storages in allocation order, so a handle is an index into  *)
(* it.  Cloning a handle (Rc::clone) copies the address.  The scalar type  *)
(* T is modelled by the integers, within caps that keep its arithmetic     *)
(* exact.  A panic unwinds: the guards of the panicking frame are dropped  *)
(* and the caller sees the operation fail.                                 *)
(*                                                                         *)
(* The source holds no caller of the backward rules.  The steps of a       *)
(* driver (seeding a gradient, starting a pass, invoking a rule) are       *)
(* modelled after the contract the design states for one.                  *)
(***************************************************************************)
EXTENDS Integers, Sequences, FiniteSets, TLC

\* Bounds of the model.
MaxNodes == 3        \* nodes allocated in a free run
MaxPassNodes == 4    \* nodes allocated before a backward pass
MaxGrad == 5         \* cap on the magnitude of a gradient in a free run
MaxPassGrad == 1000  \* cap on the magnitude of a gradient in a backward pass
MaxData == 32        \* cap on the magnitude of a node's data

VARIABLES
    heap,     \* Seq of ValueImpl records: heap[p] is the storage at address p
    borrow,   \* borrow[p]: the RefCell flag of heap[p]; 0 free, n>0 shared, -1 exclusive
    last,     \* the latest operation: its name and whether it panicked
    pass      \* the backward pass in progress: its root and the nodes invoked so far

vars == <<heap, borrow, last, pass>>

\* The raw scalars leaves are built from, and the gradients a driver seeds.
Scalars == {3, 4}
Seeds == {1, 2}

Abs(x) == IF x < 0 THEN 0 - x ELSE x

\* T::default() of the scalar type: the additive identity.
TDefault == 0

Handles == 1..Len(heap)

NoPass == [active |-> FALSE, root |-> 0, order |-> <<>>]

(***************************************************************************)
(* Node storage                                                            *)
(***************************************************************************)

\* ValueImpl::new: grad starts at T::default(), no backward rule.
ValueImplNew(d, children, o) ==
    [data |-> d, grad |-> TDefault, backward |-> "None", prev |-> children, op |-> o]

\* Value::new: Rc::new(RefCell::new(v)) allocates fresh storage; its flag is free.
ValueNew(h, v) == Append(h, v)

\* RefCell::borrow on the storage at p; fails when exclusively borrowed.
CanBorrow(b, p) == b[p] >= 0

\* Value::data and Value::grad: a copy of the field, read through a shared borrow.
DataOf(h, p) == h[p].data

GradOf(h, p) == h[p].grad

(***************************************************************************)
(* Graph construction                                                      *)
(***************************************************************************)

\* A variant of AddImpl that stores the operands in the opposite order.
AddImplSwapped(h, a, b) ==
    [data |-> h[a].data + h[b].data, grad |-> TDefault,
     backward |-> "AddBackward", prev |-> <<b, a>>, op |-> "Add"]

\* &a + &b: the new node, before it is put behind a handle.
AddImpl(h, a, b) ==
    [ValueImplNew(DataOf(h, a) + DataOf(h, b), <<a, b>>, "Add")
        EXCEPT !.backward = "AddBackward"]

\* A variant of MulImpl that computes the data as add does.
MulImplSum(h, a, b) ==
    [data |-> h[a].data + h[b].data, grad |-> TDefault,
     backward |-> "MulBackward", prev |-> <<a, b>>, op |-> "Multiply"]

\* &a * &b
MulImpl(h, a, b) ==
    [ValueImplNew(DataOf(h, a) * DataOf(h, b), <<a, b>>, "Multiply")
        EXCEPT !.backward = "MulBackward"]

(***************************************************************************)
(* The local backward rules.  A rule runs on a frame: the heap, the borrow *)
(* flags, the guards the frame holds, and whether it has panicked.  After  *)
(* a panic the remaining statements are skipped and the guards are dropped *)
(* by unwinding.                                                           *)
(***************************************************************************)

\* RefCell::borrow_mut on the storage at p: panics unless the flag is free.
BorrowMut(s, p) ==
    IF s.fault THEN s
    ELSE IF s.borrow[p] = 0
         THEN [s EXCEPT !.borrow[p] = 0 - 1, !.held = Append(@, p)]
         ELSE [s EXCEPT !.fault = TRUE]

\* A variant of AccGrad that accumulates into the data field.
AccGradIntoData(s, p, v) ==
    IF s.fault THEN s ELSE [s EXCEPT !.heap[p].data = @ + v]

\* child.grad += v, through the exclusive guard on p
AccGrad(s, p, v) ==
    IF s.fault THEN s ELSE [s EXCEPT !.heap[p].grad = @ + v]

\* Leaving the closure (normally or unwinding): every RefMut held is dropped.
DropGuards(s) ==
    [s EXCEPT !.borrow = [p \in DOMAIN s.borrow |->
                             IF \E i \in DOMAIN s.held : s.held[i] = p
                             THEN 0 ELSE s.borrow[p]],
              !.held = <<>>]

\* A variant of AddBackward that assigns the gradient instead of accumulating.
AddBackwardOverwrite(s, out) ==
    LET c1 == s.heap[out].prev[1]
        c2 == s.heap[out].prev[2]
        s1 == BorrowMut(s, c1)
        s2 == BorrowMut(s1, c2)
        s3 == IF s2.fault THEN s2 ELSE [s2 EXCEPT !.heap[c1].grad = s2.heap[out].grad]
        s4 == IF s3.fault THEN s3 ELSE [s3 EXCEPT !.heap[c2].grad = s3.heap[out].grad]
    IN  DropGuards(s4)

\* A variant of AddBackward that borrows the second operand only after it has
\* accumulated into the first.
AddBackwardLateBorrow(s, out) ==
    LET c1 == s.heap[out].prev[1]
        c2 == s.heap[out].prev[2]
        s1 == BorrowMut(s, c1)
        s2 == AccGrad(s1, c1, s1.heap[out].grad)
        s3 == BorrowMut(s2, c2)
        s4 == AccGrad(s3, c2, s3.heap[out].grad)
    IN  DropGuards(s4)

\* A variant of AddBackward that passes the gradient to the first operand only.
AddBackwardFirstOnly(s, out) ==
    LET c1 == s.heap[out].prev[1]
        c2 == s.heap[out].prev[2]
        s1 == BorrowMut(s, c1)
        s2 == BorrowMut(s1, c2)
        s3 == AccGrad(s2, c1, s2.heap[out].grad)
    IN  DropGuards(s3)

\* The closure stored by add; out is the node out_ref borrows.
AddBackward(s, out) ==
    LET c1 == s.heap[out].prev[1]
        c2 == s.heap[out].prev[2]
        s1 == BorrowMut(s, c1)
        s2 == BorrowMut(s1, c2)
        s3 == AccGrad(s2, c1, s2.heap[out].grad)
        s4 == AccGrad(s3, c2, s3.heap[out].grad)
    IN  DropGuards(s4)

\* A variant of MulBackward that scales by the operand's own data.
MulBackwardOwnData(s, out) ==
    LET c1 == s.heap[out].prev[1]
        c2 == s.heap[out].prev[2]
        s1 == BorrowMut(s, c1)
        s2 == BorrowMut(s1, c2)
        s3 == AccGrad(s2, c1, s2.heap[c1].data * s2.heap[out].grad)
        s4 == AccGrad(s3, c2, s3.heap[c2].data * s3.heap[out].grad)
    IN  DropGuards(s4)

\* The closure stored by mul.
MulBackward(s, out) ==
    LET c1 == s.heap[out].prev[1]
        c2 == s.heap[out].prev[2]
        s1 == BorrowMut(s, c1)
        s2 == BorrowMut(s1, c2)
        s3 == AccGrad(s2, c1, s2.heap[c2].data * s2.heap[out].grad)
        s4 == AccGrad(s3, c2, s3.heap[c1].data * s3.heap[out].grad)
    IN  DropGuards(s4)

\* A variant of CallBackward that takes the node's gradient: it is reset to
\* the additive identity once distributed.
CallBackwardTakesGrad(h, b, out) ==
    LET s0 == [heap |-> h, borrow |-> [b EXCEPT ![out] = @ + 1],
               held |-> <<>>, fault |-> FALSE]
        s1 == IF h[out].backward = "AddBackward" THEN AddBackward(s0, out)
              ELSE MulBackward(s0, out)
    IN  [s1 EXCEPT !.borrow[out] = @ - 1, !.heap[out].grad = TDefault]

\* Calling the stored function pointer of node out with out.borrow():
\* the shared borrow of out is taken for the call and dropped after it.
CallBackward(h, b, out) ==
    LET s0 == [heap |-> h, borrow |-> [b EXCEPT ![out] = @ + 1],
               held |-> <<>>, fault |-> FALSE]
        s1 == IF h[out].backward = "AddBackward" THEN AddBackward(s0, out)
              ELSE MulBackward(s0, out)
    IN  [s1 EXCEPT !.borrow[out] = @ - 1]

(***************************************************************************)
(* Equality and hashing of handles                                         *)
(***************************************************************************)

\* A variant of ValueImplEq that compares the fields, as a derived PartialEq would.
ValueImplEqByContent(h, p, q) == h[p] = h[q]

\* PartialEq for ValueImpl: std::ptr::eq of the two storages.
ValueImplEq(h, p, q) == p = q

\* Hash for ValueImpl: std::ptr::hash feeds the storage's address to the hasher.
ValueImplHash(h, p) == p

\* The derived PartialEq of Value: Rc compares by pointer first, then the
\* RefCell compares its contents, which are ValueImpls.
ValueEq(h, p, q) == p = q \/ ValueImplEq(h, p, q)

\* Hash for Value: self.borrow().hash(state)
ValueHash(h, p) == ValueImplHash(h, p)

(***************************************************************************)
(* Operations                                                              *)
(***************************************************************************)

Init ==
    /\ heap = <<>>
    /\ borrow = <<>>
    /\ last = [op |-> "init", fault |-> FALSE]
    /\ pass = NoPass

\* Putting a freshly built ValueImpl behind a new handle.
Alloc(v, name) ==
    /\ heap' = ValueNew(heap, v)
    /\ borrow' = Append(borrow, 0)
    /\ last' = [op |-> name, fault |-> FALSE]
    /\ UNCHANGED pass

\* Value::from(v)
From(v, lim) ==
    /\ ~pass.active
    /\ Len(heap) < lim
    /\ Alloc(ValueImplNew(v, <<>>, "None"), "from")

\* Value::default()
DefaultValue(lim) ==
    /\ ~pass.active
    /\ Len(heap) < lim
    /\ Alloc(ValueImplNew(TDefault, <<>>, "None"), "default")

\* &a + &b
Add(a, b, lim) ==
    /\ ~pass.active
    /\ Len(heap) < lim
    /\ CanBorrow(borrow, a) /\ CanBorrow(borrow, b)
    /\ Abs(AddImpl(heap, a, b).data) <= MaxData
    /\ Alloc(AddImpl(heap, a, b), "add")

\* a + b, consuming both handles: &self + &rhs, then self and rhs are dropped.
\* The new node's operand list keeps a clone of each, so no storage is freed.
AddOwned(a, b, lim) ==
    /\ ~pass.active
    /\ Len(heap) < lim
    /\ CanBorrow(borrow, a) /\ CanBorrow(borrow, b)
    /\ Abs(AddImpl(heap, a, b).data) <= MaxData
    /\ Alloc(AddImpl(heap, a, b), "add_owned")

\* &a * &b
Mul(a, b, lim) ==
    /\ ~pass.active
    /\ Len(heap) < lim
    /\ CanBorrow(borrow, a) /\ CanBorrow(borrow, b)
    /\ Abs(MulImpl(heap, a, b).data) <= MaxData
    /\ Alloc(MulImpl(heap, a, b), "mul")

\* a * b, consuming both handles
MulOwned(a, b, lim) ==
    /\ ~pass.active
    /\ Len(heap) < lim
    /\ CanBorrow(borrow, a) /\ CanBorrow(borrow, b)
    /\ Abs(MulImpl(heap, a, b).data) <= MaxData
    /\ Alloc(MulImpl(heap, a, b), "mul_owned")

Build(lim) ==
    \/ \E v \in Scalars : From(v, lim)
    \/ DefaultValue(lim)
    \/ \E a, b \in Handles : Add(a, b, lim)
    \/ \E a, b \in Handles : AddOwned(a, b, lim)
    \/ \E a, b \in Handles : Mul(a, b, lim)
    \/ \E a, b \in Handles : MulOwned(a, b, lim)

\* A driver seeds the gradient of an expression's output, a derived node:
\* n.borrow_mut().grad = g
SeedGrad(n, g) ==
    /\ ~pass.active
    /\ heap[n].op # "None"
    /\ borrow[n] = 0
    /\ heap' = [heap EXCEPT ![n].grad = g]
    /\ last' = [op |-> "seed", fault |-> FALSE]
    /\ UNCHANGED <<borrow, pass>>

\* A driver invokes the local backward rule of a derived node.
LocalBackward(n, cap) ==
    /\ heap[n].backward # "None"
    /\ CanBorrow(borrow, n)
    /\ LET r == CallBackward(heap, borrow, n)
       IN  /\ \A p \in Handles : Abs(r.heap[p].grad) <= cap
           /\ heap' = r.heap
           /\ borrow' = r.borrow
           /\ last' = [op |-> "backward", fault |-> r.fault]

InvokeBackward(n) ==
    /\ ~pass.active
    /\ LocalBackward(n, MaxGrad)
    /\ UNCHANGED pass

\* A backward pass begins: every grad is reset to the additive identity and
\* the root's grad is set to the multiplicative identity.
StartPass(root) ==
    /\ ~pass.active
    /\ \A p \in Handles : borrow[p] = 0
    /\ heap' = [p \in Handles |->
                   [heap[p] EXCEPT !.grad = IF p = root THEN 1 ELSE TDefault]]
    /\ pass' = [active |-> TRUE, root |-> root, order |-> <<>>]
    /\ last' = [op |-> "start_pass", fault |-> FALSE]
    /\ UNCHANGED borrow

\* Within a pass a derived node's rule is invoked at most once, in any order.
PassBackward(n) ==
    /\ pass.active
    /\ \A i \in DOMAIN pass.order : pass.order[i] # n
    /\ LocalBackward(n, MaxPassGrad)
    /\ pass' = [pass EXCEPT !.order = Append(@, n)]

Next ==
    \/ Build(MaxNodes)
    \/ \E n \in Handles, g \in Seeds : SeedGrad(n, g)
    \/ \E n \in Handles : InvokeBackward(n)

Spec == Init /\ [][Next]_vars

\* The graph a pass runs on: leaves and the borrowing operators, no node
\* built from the same node twice.
BuildGraph(lim) ==
    \/ \E v \in Scalars : From(v, lim)
    \/ \E a, b \in Handles : a # b /\ Add(a, b, lim)
    \/ \E a, b \in Handles : a # b /\ Mul(a, b, lim)

NextPass ==
    \/ BuildGraph(MaxPassNodes)
    \/ \E r \in Handles : StartPass(r)
    \/ \E n \in Handles : PassBackward(n)

SpecPass == Init /\ [][NextPass]_vars

(***************************************************************************)
(* Properties                                                              *)
(***************************************************************************)

Derived == {n \in Handles : heap[n].backward # "None"}

Op1(n) == heap[n].prev[1]

Op2(n) == heap[n].prev[2]

\* Node n was built from two distinct operand nodes.
DistinctOperands(n) == Op1(n) # Op2(n)

\* No node of the graph has the same node as both of its operands.
NoSelfPair == \A n \in Derived : DistinctOperands(n)

\* The step is an invocation of node n's local backward rule in a free run.
BackwardStep(n) == last'.op = "backward" /\ InvokeBackward(n)

\* The step is an invocation of node n's local backward rule within a pass.
PassBackwardStep(n) == last'.op = "backward" /\ PassBackward(n)

\* The step builds a + b, in the borrowing or the consuming form.
AddStep(a, b) ==
    /\ last'.op \in {"add", "add_owned"}
    /\ Add(a, b, MaxNodes) \/ AddOwned(a, b, MaxNodes)

\* The step builds a * b, in the borrowing or the consuming form.
MulStep(a, b) ==
    /\ last'.op \in {"mul", "mul_owned"}
    /\ Mul(a, b, MaxNodes) \/ MulOwned(a, b, MaxNodes)

\* The node the latest construction allocated.
Newest == heap'[Len(heap')]

\* C1: for a leaf a with no gradient yet and out = a + a, invoking out's
\* local backward rule leaves a.grad equal to 2 * out.grad.
C1_SharedNodeAccumulation ==
    [][\A n \in Handles :
          (/\ heap[n].op = "Add"
           /\ Op1(n) = Op2(n)
           /\ heap[Op1(n)].op = "None"
           /\ heap[Op1(n)].grad = TDefault
           /\ BackwardStep(n))
          => heap'[Op1(n)].grad = 2 * heap'[n].grad]_vars

\* C2: one invocation of the local backward rule of out = a * b, a and b
\* distinct, adds b.data * out.grad to a.grad and a.data * out.grad to b.grad.
C2_MulDistribution ==
    [][\A n \in Handles :
          (heap[n].op = "Multiply" /\ DistinctOperands(n) /\ BackwardStep(n))
          => /\ heap'[Op1(n)].grad =
                   heap[Op1(n)].grad + heap[Op2(n)].data * heap[n].grad
             /\ heap'[Op2(n)].grad =
                   heap[Op2(n)].grad + heap[Op1(n)].data * heap[n].grad]_vars

\* a.data = 3, b.data = 4, out.grad = 1 has given a.grad = 4 and b.grad = 3.
C2_Witness ==
    /\ last.op = "backward" /\ ~last.fault
    /\ \E n \in Handles :
          /\ heap[n].op = "Multiply" /\ DistinctOperands(n)
          /\ heap[Op1(n)].data = 3 /\ heap[Op2(n)].data = 4
          /\ heap[n].grad = 1
          /\ heap[Op1(n)].grad = 4 /\ heap[Op2(n)].grad = 3

\* C3: one invocation of the local backward rule of out = a + b, a and b
\* distinct, adds out.grad to a.grad and to b.grad.
C3_AddDistribution ==
    [][\A n \in Handles :
          (heap[n].op = "Add" /\ DistinctOperands(n) /\ BackwardStep(n))
          => /\ heap'[Op1(n)].grad = heap[Op1(n)].grad + heap[n].grad
             /\ heap'[Op2(n)].grad = heap[Op2(n)].grad + heap[n].grad]_vars

\* An add node seeded with 2 has been invoked twice: both operands hold 4.
C3_Witness ==
    /\ last.op = "backward" /\ ~last.fault
    /\ \E n \in Handles :
          /\ heap[n].op = "Add" /\ DistinctOperands(n)
          /\ heap[n].grad = 2
          /\ heap[Op1(n)].grad = 4 /\ heap[Op2(n)].grad = 4

\* C4: a + b, borrowing or consuming, allocates a node with data
\* a.data + b.data, tag Add, operands [a, b] and grad T::default().
C4_AddCorrect ==
    [][\A a, b \in Handles :
          AddStep(a, b)
          => /\ Len(heap') = Len(heap) + 1
             /\ Newest.data = heap[a].data + heap[b].data
             /\ Newest.op = "Add"
             /\ Newest.prev = <<a, b>>
             /\ Newest.grad = TDefault]_vars

\* A consuming add has just built a node over a derived operand that
\* already carries a gradient.
C4_Witness ==
    /\ last.op = "add_owned"
    /\ LET out == heap[Len(heap)]
       IN  /\ out.op = "Add"
           /\ \E i \in 1..2 : /\ heap[out.prev[i]].op # "None"
                              /\ heap[out.prev[i]].grad # TDefault

\* C5: a * b allocates a node with data a.data * b.data, tag Multiply and
\* operands [a, b].
C5_MulCorrect ==
    [][\A a, b \in Handles :
          MulStep(a, b)
          => /\ Len(heap') = Len(heap) + 1
             /\ Newest.data = heap[a].data * heap[b].data
             /\ Newest.op = "Multiply"
             /\ Newest.prev = <<a, b>>]_vars

\* A multiply has just built a node whose operands are a derived node and a
\* leaf with different data.
C5_Witness ==
    /\ last.op \in {"mul", "mul_owned"}
    /\ LET out == heap[Len(heap)]
       IN  /\ out.op = "Multiply"
           /\ heap[out.prev[1]].op # "None"
           /\ heap[out.prev[2]].op = "None"
           /\ heap[out.prev[1]].data # heap[out.prev[2]].data

\* C6: handles are equal iff they point at the same storage, and hash alike
\* iff they do, whatever the nodes hold; a clone kept in an operand list is
\* equal to the handle it was cloned from.
C6_IdentitySemantics ==
    /\ \A p, q \in Handles :
          /\ ValueEq(heap, p, q) <=> p = q
          /\ (ValueHash(heap, p) = ValueHash(heap, q)) <=> p = q
    /\ \A n \in Derived : \A i \in 1..2 : \A p \in Handles :
          heap[n].prev[i] = p
          => /\ ValueEq(heap, heap[n].prev[i], p)
             /\ ValueHash(heap, heap[n].prev[i]) = ValueHash(heap, p)

\* Two distinct leaves hold the same contents, and a node holds a clone of
\* a handle whose node has since accumulated a gradient.
C6_Witness ==
    /\ \E p, q \in Handles : p # q /\ heap[p] = heap[q]
    /\ \E n \in Derived : heap[Op1(n)].grad # TDefault

\* C7: no operation changes the data, the operation tag, the operand list or
\* the backward rule of an existing node.
C7_StructuralImmutability ==
    [][\A p \in Handles :
          /\ heap'[p].data = heap[p].data
          /\ heap'[p].op = heap[p].op
          /\ heap'[p].prev = heap[p].prev
          /\ heap'[p].backward = heap[p].backward]_vars

\* A backward rule has run and left a gradient on a leaf.
C7_Witness ==
    /\ last.op = "backward" /\ ~last.fault
    /\ \E p \in Handles : heap[p].op = "None" /\ heap[p].grad # TDefault

\* C8: the local backward rule of a node whose two operands are the same
\* node panics, and then no field of any node has changed and no borrow is
\* outstanding; between operations no borrow is ever outstanding.
C8_BorrowConflictFailFast ==
    [][/\ \A n \in Handles :
             (n \in Derived /\ ~DistinctOperands(n) /\ BackwardStep(n))
             => /\ last'.fault
                /\ heap' = heap
          /\ \A p \in DOMAIN borrow' : borrow'[p] = 0]_vars

\* A seeded node with the same node as both operands has been invoked.
C8_Witness ==
    /\ last.op = "backward" /\ last.fault
    /\ \E n \in Derived : ~DistinctOperands(n) /\ heap[n].grad # TDefault

Consumers(n) == {c \in Derived : Op1(c) = n \/ Op2(c) = n}

Invoked == {pass.order[i] : i \in DOMAIN pass.order}

\* Every derived node has been invoked (each at most once, by PassBackward).
PassComplete == pass.active /\ Invoked = Derived

\* Each node was invoked after all of its consumers.
ReverseTopological ==
    \A i \in DOMAIN pass.order :
        \A c \in Consumers(pass.order[i]) :
            \E j \in 1..(i - 1) : pass.order[j] = c

\* The derivative of consumer c with respect to its i-th operand.
LocalDerivative(c, i) ==
    IF heap[c].op = "Add" THEN 1 ELSE heap[heap[c].prev[3 - i]].data

\* The gradient of the pass's root with respect to node n: the seed, for
\* the root itself, plus one contribution per use of n by a consumer.
RECURSIVE TrueGrad(_), FromConsumers(_, _)
FromConsumers(n, c) ==
    IF c > Len(heap) THEN 0
    ELSE (IF c \in Derived /\ Op1(c) = n
          THEN LocalDerivative(c, 1) * TrueGrad(c) ELSE 0)
         + (IF c \in Derived /\ Op2(c) = n
            THEN LocalDerivative(c, 2) * TrueGrad(c) ELSE 0)
         + FromConsumers(n, c + 1)

TrueGrad(n) == (IF n = pass.root THEN 1 ELSE 0) + FromConsumers(n, n + 1)

\* C9: in a pass over a DAG without self-pairs no invocation panics, in any
\* order; and once every derived node has been invoked exactly once in
\* reverse topological order, every node's grad is the sum of the
\* contributions of its consumers (plus the seed, for the root).
C9_BackwardOrdering ==
    /\ (pass.active /\ NoSelfPair) => ~last.fault
    /\ (PassComplete /\ NoSelfPair /\ ReverseTopological)
       => \A n \in Handles : heap[n].grad = TrueGrad(n)

\* A complete reverse-topological pass over a graph in which a leaf feeds
\* two different consumers that both reach the root.
C9_Witness ==
    /\ PassComplete /\ NoSelfPair /\ ReverseTopological
    /\ \E a \in Handles :
          /\ heap[a].op = "None"
          /\ Cardinality({c \in Consumers(a) : TrueGrad(c) # 0}) >= 2
          /\ heap[a].grad = TrueGrad(a)

\* A complete pass in an order that is not reverse topological has left a
\* node with less than the sum of its consumers' contributions.
C9_WrongOrderIncomplete ==
    /\ PassComplete /\ NoSelfPair /\ ~ReverseTopological
    /\ ~last.fault
    /\ \E n \in Handles : heap[n].grad < TrueGrad(n)

\* C10: invoking the local backward rule of a node with distinct operands
\* changes nothing but the grad of its two operands; the node's own grad
\* stays, so a second invocation would add the same contributions again.
C10_BackwardFrame ==
    [][\A n \in Handles :
          (n \in Derived /\ DistinctOperands(n) /\ PassBackwardStep(n))
          => /\ \A p \in Handles \ {Op1(n), Op2(n)} : heap'[p] = heap[p]
             /\ \A p \in {Op1(n), Op2(n)} :
                   [heap'[p] EXCEPT !.grad = heap[p].grad] = heap[p]
             /\ heap'[n].grad = heap[n].grad
             /\ LET again == CallBackward(heap', borrow', n)
                IN  \A p \in Handles :
                       again.heap[p].grad - heap'[p].grad
                           = heap'[p].grad - heap[p].grad]_vars

\* The latest invocation was of a node with a gradient, one of whose
\* operands is itself derived from a node that is not an operand of it:
\* the operand has received a gradient, its own operand has not.
C10_Witness ==
    /\ pass.active /\ pass.order # <<>> /\ last.op = "backward"
    /\ LET n == pass.order[Len(pass.order)]
       IN  /\ heap[n].grad # TDefault
           /\ \E c \in {Op1(n), Op2(n)} :
                 /\ c \in Derived
                 /\ heap[c].grad # TDefault
                 /\ \E d \in {Op1(c), Op2(c)} :
                       /\ d \notin {Op1(n), Op2(n)}
                       /\ heap[d].grad = TDefault
====
